---------------------------- MODULE Spec2Model ----------------------------
(***************************************************************************)
(* Model of ethserver/server.go: the Ethereum JSON-RPC facade in front of  *)
(* the `evmscc` chaincode.  Go strings and byte slices are sequences of    *)
(* byte values (0..255); a string literal is written S(<<"0","x">>).       *)
(* Serialized protobuf records returned by the ledger are modelled as      *)
(* blobs [nil, ok, msg]: nil is Go's nil slice, ok tells whether           *)
(* proto.Unmarshal accepts the bytes, msg is the record they decode to.    *)
(***************************************************************************)
EXTENDS Integers, Sequences, FiniteSets, TLC

VARIABLES
    phase,      \* "idle" | "dispatched" | "returned": position of the one RPC call
    req,        \* the call as the RPC server made it: method, arguments, reply at call time
    params,     \* the *Params struct the handler holds (SendTransaction assigns params.To)
    reply,      \* the value behind the reply pointer
    ret,        \* how the handler ended: [kind, err, site]
    client,     \* the channel client of this call: "none" | "nil" | "open" | "closed"
    calls,      \* the ledger calls issued through the client, in order, with their results
    addr,       \* Strip0xFromHex: its argument
    stripped    \* Strip0xFromHex: its result, <<r>> once it returned

vars == <<phase, req, params, reply, ret, client, calls, addr, stripped>>

-----------------------------------------------------------------------------
(* Bounds of the model *)

MaxLen == 4        \* longest string handed to Strip0xFromHex on its own
MaxBlock == 12     \* largest block number a header carries

-----------------------------------------------------------------------------
(* Strings and bytes *)

Ord ==
    [c \in {"0","1","2","3","4","7","a","b","c","d","x","z","A","B","C","t"} |->
        CASE c = "0" -> 48 [] c = "1" -> 49 [] c = "2" -> 50 [] c = "3" -> 51
          [] c = "4" -> 52 [] c = "7" -> 55
          [] c = "a" -> 97 [] c = "b" -> 98 [] c = "c" -> 99 [] c = "d" -> 100
          [] c = "x" -> 120 [] c = "z" -> 122 [] c = "t" -> 116
          [] c = "A" -> 65 [] c = "B" -> 66 [] c = "C" -> 67
          [] OTHER -> 0]

S(cs) == [i \in 1..Len(cs) |-> Ord[cs[i]]]

Prefix0x == S(<<"0", "x">>)

\* strings.Index(s, sep): the 0-based position of the first sep in s, -1 if none
Index(s, sep) ==
    LET at == {i \in 1..(Len(s) - Len(sep) + 1) : SubSeq(s, i, i + Len(sep) - 1) = sep}
    IN  IF at = {} THEN -1
        ELSE (CHOOSE i \in at : \A j \in at : i <= j) - 1

\* strings.Split(s, sep) for a non-empty sep: cut at each sep found scanning left to right
RECURSIVE Split(_, _)
Split(s, sep) ==
    LET m == Index(s, sep)
    IN  IF m < 0 THEN <<s>>
        ELSE <<SubSeq(s, 1, m)>> \o Split(SubSeq(s, m + Len(sep) + 1, Len(s)), sep)

\* a slip: the element after the first "0x", not the last
Strip0xFirst(a) ==
    LET parts == Split(a, Prefix0x)
    IN  IF Len(parts) = 1 THEN parts[1] ELSE parts[2]

Strip0xFromHex(a) ==
    LET parts == Split(a, Prefix0x)
    IN  parts[Len(parts)]

\* encoding/hex: the digits EncodeToString writes
hextable == [i \in 1..16 |-> IF i <= 10 THEN 47 + i ELSE 86 + i]   \* "0123456789abcdef"

\* hex.EncodeToString(b): two digits per byte, high nibble first
EncodeToString(b) ==
    [i \in 1..(2 * Len(b)) |->
        IF i % 2 = 1 THEN hextable[(b[(i + 1) \div 2] \div 16) + 1]
                     ELSE hextable[(b[i \div 2] % 16) + 1]]

\* encoding/hex fromHexChar: the value of one digit, -1 for a byte that is no digit
fromHexChar(c) ==
    IF c >= 48 /\ c <= 57 THEN c - 48
    ELSE IF c >= 97 /\ c <= 102 THEN c - 97 + 10
    ELSE IF c >= 65 /\ c <= 70 THEN c - 65 + 10
    ELSE -1

\* hex.DecodeString(s): an error for an odd length or a byte that is no digit
DecodeString(s) ==
    IF Len(s) % 2 = 1 \/ (\E i \in 1..Len(s) : fromHexChar(s[i]) < 0)
    THEN [err |-> TRUE, bytes |-> <<>>]
    ELSE [err |-> FALSE,
          bytes |-> [i \in 1..(Len(s) \div 2) |->
                        16 * fromHexChar(s[2 * i - 1]) + fromHexChar(s[2 * i])]]

\* strconv.FormatUint(n, 10)
RECURSIVE FormatUint(_)
FormatUint(n) ==
    IF n < 10 THEN <<48 + n>> ELSE FormatUint(n \div 10) \o <<48 + (n % 10)>>

\* strings.ToLower on ASCII text
ToLower(s) == [i \in 1..Len(s) |-> IF s[i] >= 65 /\ s[i] <= 90 THEN s[i] + 32 ELSE s[i]]

channelID == <<99, 104, 97, 110, 110, 101, 108, 49>>   \* "channel1"

AddrLen == 20

\* a slip: a zero address one byte short
zeroAddressShort == [i \in 1..(AddrLen - 1) |-> 0]

zeroAddress == [i \in 1..AddrLen |-> 0]

-----------------------------------------------------------------------------
(* Serialized ledger records.  proto.Unmarshal accepts a blob iff blob.ok;  *)
(* zero bytes (and Go's nil slice) decode to the record with no field set.  *)

NilBytes(empty) == [nil |-> TRUE, ok |-> TRUE, msg |-> empty]
Garbage(empty) == [nil |-> FALSE, ok |-> FALSE, msg |-> empty]
Enc(m) == [nil |-> FALSE, ok |-> TRUE, msg |-> m]
Blobs(empty, msgs) == {NilBytes(empty), Garbage(empty)} \cup {Enc(m) : m \in msgs}

\* peer.ChaincodeAction: Response is a pointer, Response.Payload bytes
NoChaincodeAction == [hasResponse |-> FALSE, Payload |-> <<>>]
ChaincodeActions ==
    {NoChaincodeAction} \cup
    {[hasResponse |-> TRUE, Payload |-> p] : p \in {<<>>, <<170, 187>>}}

\* peer.ProposalResponsePayload: Extension bytes
NoProposalResponsePayload == [Extension |-> NilBytes(NoChaincodeAction)]
ProposalResponsePayloads ==
    {[Extension |-> e] : e \in Blobs(NoChaincodeAction, ChaincodeActions)}

\* the hex text of the zero address, and the argument lists an invocation may carry
ZeroHex == [i \in 1..(2 * AddrLen) |-> 48]
ArgLists ==
    { <<>>,
      <<ZeroHex>>,
      <<ZeroHex, S(<<"a","b">>)>>,
      <<[ZeroHex EXCEPT ![2 * AddrLen] = 49]>>,
      <<SubSeq(ZeroHex, 1, 2 * AddrLen - 2)>>,
      <<ZeroHex \o S(<<"0","0">>)>>,
      <<S(<<"A","b">>), S(<<"c","d">>)>>,
      <<S(<<"z","z">>)>>,
      <<S(<<"0">>)>> }

\* peer.ChaincodeInvocationSpec: ChaincodeSpec and its Input are pointers
NoInvocationSpec == [hasSpec |-> FALSE, hasInput |-> FALSE, Args |-> <<>>]
InvocationSpecs ==
    {NoInvocationSpec, [hasSpec |-> TRUE, hasInput |-> FALSE, Args |-> <<>>]} \cup
    {[hasSpec |-> TRUE, hasInput |-> TRUE, Args |-> a] : a \in ArgLists}

\* peer.ChaincodeProposalPayload: Input bytes
NoChaincodeProposalPayload == [Input |-> NilBytes(NoInvocationSpec)]
ChaincodeProposalPayloads ==
    {[Input |-> i] : i \in Blobs(NoInvocationSpec, InvocationSpecs)}

\* peer.ChaincodeActionPayload: ChaincodeProposalPayload bytes, Action a pointer
\* to a record with ProposalResponsePayload bytes
NoChaincodeActionPayload ==
    [ChaincodeProposalPayload |-> NilBytes(NoChaincodeProposalPayload),
     hasAction |-> FALSE,
     ProposalResponsePayload |-> NilBytes(NoProposalResponsePayload)]
ChaincodeActionPayloads ==
    {NoChaincodeActionPayload} \cup
    {[ChaincodeProposalPayload |-> c, hasAction |-> TRUE, ProposalResponsePayload |-> r] :
        c \in Blobs(NoChaincodeProposalPayload, ChaincodeProposalPayloads),
        r \in Blobs(NoProposalResponsePayload, ProposalResponsePayloads)}

\* peer.TransactionAction: Payload bytes
TransactionActions ==
    {[Payload |-> b] : b \in Blobs(NoChaincodeActionPayload, ChaincodeActionPayloads)}

\* peer.Transaction: Actions, in order
NoTransaction == [Actions |-> <<>>]
Transactions ==
    {NoTransaction} \cup {[Actions |-> <<a>>] : a \in TransactionActions}
    \cup {[Actions |-> <<a, [Payload |-> Garbage(NoChaincodeActionPayload)]>>] :
            a \in TransactionActions}

\* common.Payload: Data bytes
NoPayload == [Data |-> NilBytes(NoTransaction)]
Payloads == {[Data |-> d] : d \in Blobs(NoTransaction, Transactions)}

\* peer.ProcessedTransaction: TransactionEnvelope is a pointer to an envelope with
\* Payload bytes
NoProcessedTransaction == [hasEnvelope |-> FALSE, Payload |-> NilBytes(NoPayload)]
ProcessedTransactions ==
    {NoProcessedTransaction} \cup
    {[hasEnvelope |-> TRUE, Payload |-> p] : p \in Blobs(NoPayload, Payloads)}

\* common.Block: Header is a pointer to a header with Number; digest stands for the
\* bytes BlockHeader.Hash() computes from the header
NoBlock == [hasHeader |-> FALSE, Number |-> 0, digest |-> <<>>]
Blocks ==
    {NoBlock} \cup
    {[hasHeader |-> TRUE, Number |-> n, digest |-> <<n, 255>>] : n \in 0..MaxBlock}

-----------------------------------------------------------------------------
(* What the ledger may answer *)

Results(none, values) ==
    {[err |-> TRUE, value |-> none]} \cup {[err |-> FALSE, value |-> v] : v \in values}

CodeResults == Results(<<>>, {<<>>, S(<<"a","b">>)})
CallResults == Results(<<>>, {<<>>, <<0>>, <<171, 205>>})
AccountResults == Results(<<>>, {<<>>, S(<<"A","b","C">>)})
ExecuteResults == Results(<<>>, {S(<<"t","1">>)})
TxResults ==
    Results(NilBytes(NoProcessedTransaction),
            Blobs(NoProcessedTransaction, ProcessedTransactions))
BlockResults == Results(NilBytes(NoBlock), Blobs(NoBlock, Blocks))

-----------------------------------------------------------------------------
(* The handlers.  Each yields how it ended, the reply value, the state of   *)
(* its channel client and the ledger calls it issued.                      *)

NoReturn == [kind |-> "none", err |-> "", site |-> 0]
ReturnNil(site) == [kind |-> "nil", err |-> "", site |-> site]
ReturnErr(err, site) == [kind |-> "error", err |-> err, site |-> site]
Panic(site) == [kind |-> "panic", err |-> "", site |-> site]

\* sdk.NewChannelClient: a client, or nil and an error
NewChannelClient(got) == IF got THEN "open" ELSE "nil"

\* one ledger call as the gateway saw it
LedgerCall(kind, chaincodeID, function, args, res) ==
    [kind |-> kind, ChaincodeID |-> chaincodeID, Fcn |-> function, Args |-> args,
     err |-> res.err, value |-> res.value]

\* a slip: a failed query is issued a second time
QueryRetry(chaincodeID, function, queryArgs, res) ==
    IF res.err
    THEN <<LedgerCall("query", chaincodeID, function, queryArgs, res),
           LedgerCall("query", chaincodeID, function, queryArgs, res)>>
    ELSE <<LedgerCall("query", chaincodeID, function, queryArgs, res)>>

\* Query: the calls it adds to the log (one chClient.Query)
Query(chaincodeID, function, queryArgs, res) ==
    <<LedgerCall("query", chaincodeID, function, queryArgs, res)>>

Outcome(r, rep, cl, cs) == [ret |-> r, reply |-> rep, client |-> cl, calls |-> cs]

GetCode(args, reply0, got, q) ==
    IF ~got THEN Outcome(Panic(116), reply0, NewChannelClient(got), <<>>)
    ELSE \* a failed query is printed only; chClient.Close is deferred
         Outcome(ReturnNil(133), q.value, "closed",
                 Query("evmscc", "getCode", <<Strip0xFromHex(args)>>, q))

\* a slip: the reply is assigned before the error is looked at
CallAssignsFirst(p, reply0, got, q) ==
    IF ~got THEN Outcome(ReturnErr("client", 143), reply0, NewChannelClient(got), <<>>)
    ELSE LET cs == Query("evmscc", Strip0xFromHex(p.To), <<Strip0xFromHex(p.Data)>>, q)
             rep == Prefix0x \o EncodeToString(q.value)
         IN  IF q.err THEN Outcome(ReturnErr("query", 153), rep, "closed", cs)
             ELSE Outcome(ReturnNil(159), rep, "closed", cs)

Call(p, reply0, got, q) ==
    IF ~got THEN Outcome(ReturnErr("client", 143), reply0, NewChannelClient(got), <<>>)
    ELSE LET cs == Query("evmscc", Strip0xFromHex(p.To), <<Strip0xFromHex(p.Data)>>, q)
         IN  IF q.err THEN Outcome(ReturnErr("query", 153), reply0, "closed", cs)
             ELSE Outcome(ReturnNil(159), Prefix0x \o EncodeToString(q.value), "closed", cs)

\* a slip: the zero address whatever To is
defaultToAlways(To) == EncodeToString(zeroAddress)

\* params.To after lines 171-173
defaultTo(To) == IF To = <<>> THEN EncodeToString(zeroAddress) ELSE To

\* SendTransaction also yields the params struct it leaves behind
SendTransaction(p, reply0, got, x) ==
    IF ~got
    THEN [ret |-> ReturnErr("client", 167), reply |-> reply0,
          client |-> NewChannelClient(got), calls |-> <<>>, params |-> p]
    ELSE LET p2 == [p EXCEPT !.To = defaultTo(p.To)]
             cs == <<LedgerCall("invoke", "evmscc", Strip0xFromHex(p2.To),
                                <<Strip0xFromHex(p2.Data)>>, x)>>
         IN  IF x.err
             THEN [ret |-> ReturnErr("invoke", 187), reply |-> reply0,
                   client |-> "closed", calls |-> cs, params |-> p2]
             ELSE [ret |-> ReturnNil(193), reply |-> x.value,
                   client |-> "closed", calls |-> cs, params |-> p2]

Accounts(reply0, got, q) ==
    IF ~got THEN Outcome(Panic(285), reply0, NewChannelClient(got), <<>>)
    ELSE LET cs == Query("evmscc", "account", <<>>, q)
         IN  IF q.err THEN Outcome(ReturnErr("query", 297), reply0, "closed", cs)
             ELSE Outcome(ReturnNil(304), <<Prefix0x \o ToLower(q.value)>>, "closed", cs)

\* GetPayloads: err is "" on success
GetPayloads(txActions) ==
    LET fail(e) == [err |-> e, ccProposalPayload |-> NoChaincodeProposalPayload,
                    respPayload |-> NoChaincodeAction]
        ccPayload == txActions.Payload.msg
        pRespPayload == ccPayload.ProposalResponsePayload.msg
    IN  IF ~txActions.Payload.ok THEN fail("decode")
        ELSE IF ~ccPayload.hasAction \/ ccPayload.ProposalResponsePayload.nil
             THEN fail("no payload in ChaincodeActionPayload")
        ELSE IF ~ccPayload.ChaincodeProposalPayload.ok THEN fail("decode")
        ELSE IF ~ccPayload.ProposalResponsePayload.ok THEN fail("decode")
        ELSE IF pRespPayload.Extension.nil THEN fail("response payload is missing extension")
        ELSE IF ~pRespPayload.Extension.ok THEN fail("decode")
        ELSE [err |-> "", ccProposalPayload |-> ccPayload.ChaincodeProposalPayload.msg,
              respPayload |-> pRespPayload.Extension.msg]

ZeroReceipt ==
    [TransactionHash |-> <<>>, BlockHash |-> <<>>, BlockNumber |-> <<>>,
     ContractAddress |-> <<>>, GasUsed |-> 0, CumulativeGasUsed |-> 0]

\* the receipt of lines 255-272
Receipt(param, block, callee, respPayload) ==
    [TransactionHash |-> param,
     BlockHash |-> EncodeToString(block.digest),
     BlockNumber |-> FormatUint(block.Number),
     ContractAddress |->
        IF callee = zeroAddress
        THEN (IF respPayload.hasResponse THEN respPayload.Payload ELSE <<>>)
        ELSE <<>>,
     GasUsed |-> 0,
     CumulativeGasUsed |-> 0]

\* The client is never closed here; with a nil client the first Query is a method
\* call on a nil interface value, which panics before it reaches the ledger.
GetTransactionReceipt(param, reply0, got, q1, q2) ==
    LET chClient == NewChannelClient(got)
        args == <<channelID, param>>
        c1 == Query("qscc", "GetTransactionByID", args, q1)
        c2 == c1 \o Query("qscc", "GetBlockByTxID", args, q2)
        tx == q1.value.msg
        block == q2.value.msg
        p == IF tx.hasEnvelope THEN tx.Payload ELSE NilBytes(NoPayload)
        payload == p.msg
        actions == payload.Data.msg.Actions
        gp == GetPayloads(actions[1])
        invokeSpec == gp.ccProposalPayload.Input.msg
        callee == DecodeString(invokeSpec.Args[1])
        end(r, cs) == Outcome(r, reply0, chClient, cs)
    IN  IF ~got THEN end(Panic(203), <<>>)
        ELSE IF q1.err THEN end(ReturnErr("query", 205), c1)
        ELSE IF ~q1.value.ok THEN end(ReturnErr("decode", 211), c1)
        ELSE IF q2.err THEN end(ReturnErr("query", 217), c2)
        ELSE IF ~q2.value.ok THEN end(ReturnErr("decode", 223), c2)
        ELSE IF ~p.ok THEN end(ReturnErr("decode", 232), c2)
        ELSE IF ~payload.Data.ok THEN end(ReturnErr("decode", 239), c2)
        ELSE IF Len(actions) = 0 THEN end(Panic(244), c2)          \* actions[0]
        ELSE IF gp.err # "" THEN end(ReturnErr(gp.err, 246), c2)
        ELSE IF ~gp.ccProposalPayload.Input.ok THEN end(ReturnErr("decode", 252), c2)
        ELSE IF ~block.hasHeader THEN end(Panic(257), c2)          \* Hash() of a nil header
        ELSE IF ~invokeSpec.hasSpec \/ ~invokeSpec.hasInput
             THEN end(Panic(263), c2)                              \* .Args of a nil input
        ELSE IF Len(invokeSpec.Args) = 0 THEN end(Panic(265), c2)  \* args[0]
        ELSE IF callee.err THEN end(ReturnErr("hex", 267), c2)
        ELSE Outcome(ReturnNil(277),
                     Receipt(param, block, callee.bytes, gp.respPayload), chClient, c2)

-----------------------------------------------------------------------------
(* The state machine: the RPC server dispatches one call to its handler *)

TxIDs == {S(<<"t","1">>), S(<<"0","x","t","2">>)}
Addresses == {<<>>, S(<<"a","b">>), S(<<"0","x","a","b">>), S(<<"0","x","a","b","0","x","c","d">>)}
StaleString == S(<<"z">>)
StaleReceipt == [ZeroReceipt EXCEPT !.TransactionHash = StaleString,
                                    !.ContractAddress = StaleString]

Request(method, param, To, Data, rep) ==
    [method |-> method, param |-> param, To |-> To, Data |-> Data, reply |-> rep]

\* the calls by the type of their reply: *string, *TxReceipt, *[]string
StringRequests ==
    {Request("GetCode", a, <<>>, <<>>, r) : a \in Addresses, r \in {<<>>, StaleString}}
    \cup {Request(m, <<>>, to, d, r) : m \in {"Call", "SendTransaction"},
            to \in Addresses, d \in Addresses, r \in {<<>>, StaleString}}
ReceiptRequests ==
    {Request("GetTransactionReceipt", id, <<>>, <<>>, r) :
        id \in TxIDs, r \in {ZeroReceipt, StaleReceipt}}
AccountsRequests ==
    {Request("Accounts", <<>>, <<>>, <<>>, r) : r \in {<<>>, <<StaleString>>}}

Init ==
    /\ phase = "idle"
    /\ req = Request("", <<>>, <<>>, <<>>, <<>>)
    /\ params = [To |-> <<>>, Data |-> <<>>]
    /\ reply = <<>>
    /\ ret = NoReturn
    /\ client = "none"
    /\ calls = <<>>
    /\ addr = <<>>
    /\ stripped = <<>>

\* the server registered by NewEthServer hands a call to the service
Dispatch ==
    /\ phase = "idle"
    /\ \/ \E r \in StringRequests : req' = r
       \/ \E r \in ReceiptRequests : req' = r
       \/ \E r \in AccountsRequests : req' = r
    /\ params' = [To |-> req'.To, Data |-> req'.Data]
    /\ reply' = req'.reply
    /\ phase' = "dispatched"
    /\ UNCHANGED <<ret, client, calls, addr, stripped>>

Finish(out) ==
    /\ ret' = out.ret
    /\ reply' = out.reply
    /\ client' = out.client
    /\ calls' = out.calls
    /\ phase' = "returned"
    /\ UNCHANGED <<req, addr, stripped>>

HandleGetCode ==
    /\ phase = "dispatched" /\ req.method = "GetCode"
    /\ \E got \in BOOLEAN, q \in CodeResults : Finish(GetCode(req.param, reply, got, q))
    /\ UNCHANGED params

HandleCall ==
    /\ phase = "dispatched" /\ req.method = "Call"
    /\ \E got \in BOOLEAN, q \in CallResults : Finish(Call(params, reply, got, q))
    /\ UNCHANGED params

HandleSendTransaction ==
    /\ phase = "dispatched" /\ req.method = "SendTransaction"
    /\ \E got \in BOOLEAN, x \in ExecuteResults :
        LET out == SendTransaction(params, reply, got, x)
        IN  Finish(out) /\ params' = out.params

HandleGetTransactionReceipt ==
    /\ phase = "dispatched" /\ req.method = "GetTransactionReceipt"
    /\ \E got \in BOOLEAN, q1 \in TxResults, q2 \in BlockResults :
        Finish(GetTransactionReceipt(req.param, reply, got, q1, q2))
    /\ UNCHANGED params

HandleAccounts ==
    /\ phase = "dispatched" /\ req.method = "Accounts"
    /\ \E got \in BOOLEAN, q \in AccountResults : Finish(Accounts(reply, got, q))
    /\ UNCHANGED params

Next ==
    \/ Dispatch
    \/ HandleGetCode
    \/ HandleCall
    \/ HandleSendTransaction
    \/ HandleGetTransactionReceipt
    \/ HandleAccounts

Spec == Init /\ [][Next]_vars

-----------------------------------------------------------------------------
(* Strip0xFromHex on its own, over every short string of '0', 'x' and 'a'    *)
(* and the strings of the documentation                                    *)

StripAlphabet == {48, 120, 97}
StripInputs ==
    UNION {[1..n -> StripAlphabet] : n \in 0..MaxLen}
    \cup {S(<<"0","x","1","2","3","4">>), S(<<"1","2","3","4">>),
          S(<<"0","x","a","b","0","x","c","d">>)}

InitStrip ==
    /\ phase = "idle"
    /\ req = Request("", <<>>, <<>>, <<>>, <<>>)
    /\ params = [To |-> <<>>, Data |-> <<>>]
    /\ reply = <<>>
    /\ ret = NoReturn
    /\ client = "none"
    /\ calls = <<>>
    /\ addr \in StripInputs
    /\ stripped = <<>>

Strip ==
    /\ stripped = <<>>
    /\ stripped' = <<Strip0xFromHex(addr)>>
    /\ UNCHANGED <<phase, req, params, reply, ret, client, calls, addr>>

SpecStrip == InitStrip /\ [][Strip]_vars

-----------------------------------------------------------------------------
(* Properties *)

Returned == phase = "returned"
IsReceipt == req.method = "GetTransactionReceipt"

\* the records the two qscc replies hold, read off the call log
BothDecoded ==
    /\ Len(calls) = 2
    /\ ~calls[1].err /\ calls[1].value.ok
    /\ ~calls[2].err /\ calls[2].value.ok
LoggedTransaction ==
    LET pt == calls[1].value.msg
        env == IF pt.hasEnvelope THEN pt.Payload ELSE NilBytes(NoPayload)
    IN  env.msg.Data
TransactionDecoded ==
    LET pt == calls[1].value.msg
    IN  /\ BothDecoded
        /\ (pt.hasEnvelope => pt.Payload.ok)
        /\ LoggedTransaction.ok
LoggedAction == LoggedTransaction.msg.Actions[1].Payload
ActionDecoded ==
    /\ TransactionDecoded
    /\ Len(LoggedTransaction.msg.Actions) > 0
    /\ LoggedAction.ok
    /\ LoggedAction.msg.hasAction
    /\ ~LoggedAction.msg.ProposalResponsePayload.nil
    /\ LoggedAction.msg.ProposalResponsePayload.ok
    /\ LoggedAction.msg.ChaincodeProposalPayload.ok
    /\ ~LoggedAction.msg.ProposalResponsePayload.msg.Extension.nil
    /\ LoggedAction.msg.ProposalResponsePayload.msg.Extension.ok
    /\ LoggedAction.msg.ChaincodeProposalPayload.msg.Input.ok
LoggedSpec == LoggedAction.msg.ChaincodeProposalPayload.msg.Input.msg
LoggedResponse == LoggedAction.msg.ProposalResponsePayload.msg.Extension.msg
LoggedHeader == calls[2].value.msg

\* C1: a call that acquired a channel client has closed it when it returns
ClientClosedOnReturn ==
    (Returned /\ client \in {"open", "closed"}) => client = "closed"

\* C2: a call whose ledger query or invoke failed returns an error
LedgerFailureIsReturned ==
    (Returned /\ \E i \in DOMAIN calls : calls[i].err) => ret.kind = "error"

\* C3: a call that could not obtain its channel client returns that failure as an
\* error, without a panic and without a ledger call
ClientFailureIsReturned ==
    (Returned /\ client = "nil") =>
        (ret.kind = "error" /\ ret.err = "client" /\ calls = <<>>)

\* C4: a receipt lookup whose decoded Transaction has no action returns an error and
\* leaves the reply alone
EmptyActionListIsAnError ==
    (Returned /\ IsReceipt /\ TransactionDecoded
        /\ Len(LoggedTransaction.msg.Actions) = 0) =>
        (ret.kind = "error" /\ reply = req.reply)

\* C5: a receipt lookup whose invocation spec has no chaincode spec, no input or no
\* argument returns an error; a receipt is written only if argument 0 exists
\* (stated where the block has a header, so that nothing else ends the call)
EmptyArgumentListIsAnError ==
    (Returned /\ IsReceipt /\ ActionDecoded /\ LoggedHeader.hasHeader) =>
        /\ (~LoggedSpec.hasSpec \/ ~LoggedSpec.hasInput \/ Len(LoggedSpec.Args) = 0)
              => ret.kind = "error"
        /\ ret.kind = "nil" => Len(LoggedSpec.Args) > 0

\* C6: a call that returns an error leaves the caller's reply value as it was
ReplyUnchangedOnError ==
    (Returned /\ ret.kind = "error") => reply = req.reply

NonHexCalleeLeavesReply ==
    /\ Returned /\ IsReceipt
    /\ ret.kind = "error" /\ ret.err = "hex"
    /\ req.reply = StaleReceipt /\ reply = StaleReceipt

\* the value of a decimal numeral
RECURSIVE DecimalValue(_)
DecimalValue(s) ==
    IF Len(s) = 0 THEN 0
    ELSE 10 * DecimalValue(SubSeq(s, 1, Len(s) - 1)) + (s[Len(s)] - 48)
IsDecimalOf(s, n) ==
    /\ Len(s) > 0
    /\ \A i \in 1..Len(s) : s[i] >= 48 /\ s[i] <= 57
    /\ (Len(s) > 1 => s[1] # 48)
    /\ DecimalValue(s) = n
IsZeroAddressHex(s) == Len(s) = 40 /\ \A i \in 1..Len(s) : s[i] = 48

\* C7: a receipt returned with success carries the response payload as
\* ContractAddress iff argument 0 is the hex of twenty zero bytes, and is empty
\* otherwise; it echoes the identifier, gives the header's number in decimal and
\* zero gas
ReceiptFields ==
    (Returned /\ IsReceipt /\ ret.kind = "nil") =>
        /\ ActionDecoded
        /\ Len(LoggedSpec.Args) > 0
        /\ IF IsZeroAddressHex(LoggedSpec.Args[1])
           THEN reply.ContractAddress =
                  (IF LoggedResponse.hasResponse THEN LoggedResponse.Payload ELSE <<>>)
           ELSE reply.ContractAddress = <<>>
        /\ reply.TransactionHash = req.param
        /\ IsDecimalOf(reply.BlockNumber, LoggedHeader.Number)
        /\ reply.GasUsed = 0
        /\ reply.CumulativeGasUsed = 0

CreationReceiptReturned ==
    /\ Returned /\ IsReceipt /\ ret.kind = "nil"
    /\ IsZeroAddressHex(LoggedSpec.Args[1])
    /\ reply.ContractAddress = <<170, 187>>
    /\ LoggedHeader.Number >= 10
    /\ req.reply = StaleReceipt

\* the part of s after its last "0x", s itself if it has none
AfterLast0x(s) ==
    LET at == {i \in 1..(Len(s) - 1) : s[i] = 48 /\ s[i + 1] = 120}
    IN  IF at = {} THEN s
        ELSE SubSeq(s, (CHOOSE i \in at : \A j \in at : j <= i) + 2, Len(s))
Has0x(s) == \E i \in 1..(Len(s) - 1) : s[i] = 48 /\ s[i + 1] = 120

\* C8: SendTransaction invokes evmscc, the function being To without its prefix and
\* the one argument Data without its prefix; an empty To gives forty '0' characters
SendTransactionTarget ==
    (Returned /\ req.method = "SendTransaction" /\ client # "nil") =>
        /\ Len(calls) = 1
        /\ calls[1].kind = "invoke"
        /\ calls[1].ChaincodeID = "evmscc"
        /\ calls[1].Args = <<AfterLast0x(req.Data)>>
        /\ calls[1].Fcn = IF req.To = <<>> THEN [i \in 1..40 |-> 48]
                                          ELSE AfterLast0x(req.To)

CreationInvoked ==
    /\ Returned /\ req.method = "SendTransaction"
    /\ req.To = <<>>
    /\ Len(calls) = 1 /\ ~calls[1].err
    /\ calls[1].Fcn = [i \in 1..40 |-> 48]
    /\ req.Data = S(<<"0","x","a","b">>)

\* C9: Strip0xFromHex gives what follows the last "0x", the whole string if there is
\* none, and its result holds no "0x"
Strip0xTakesAfterLast ==
    stripped # <<>> =>
        /\ stripped[1] = AfterLast0x(addr)
        /\ ~Has0x(stripped[1])
        /\ addr = S(<<"0","x","1","2","3","4">>) => stripped[1] = S(<<"1","2","3","4">>)
        /\ addr = S(<<"1","2","3","4">>) => stripped[1] = S(<<"1","2","3","4">>)
        /\ addr = S(<<"0","x","a","b","0","x","c","d">>) => stripped[1] = S(<<"c","d">>)

DoublePrefixStripped ==
    /\ addr = S(<<"0","x","a","b","0","x","c","d">>)
    /\ stripped = <<S(<<"c","d">>)>>

IsQscc(c, function) ==
    /\ c.kind = "query"
    /\ c.ChaincodeID = "qscc"
    /\ c.Fcn = function
    /\ c.Args = <<<<99, 104, 97, 110, 110, 101, 108, 49>>, req.param>>

\* C10: no ledger call is repeated: one call at most for GetCode, Call,
\* SendTransaction and Accounts, two at most for GetTransactionReceipt, the first
\* GetTransactionByID, the second GetBlockByTxID, the second only after the first
\* succeeded and decoded
NoRetryAndOrder ==
    Returned =>
        IF IsReceipt
        THEN /\ Len(calls) <= 2
             /\ Len(calls) >= 1 => IsQscc(calls[1], "GetTransactionByID")
             /\ Len(calls) = 2 =>
                    /\ IsQscc(calls[2], "GetBlockByTxID")
                    /\ ~calls[1].err
                    /\ calls[1].value.ok
        ELSE Len(calls) <= 1

SecondQueryFailedOnce ==
    /\ Returned /\ IsReceipt
    /\ Len(calls) = 2
    /\ calls[2].err
    /\ ret.kind = "error"

=============================================================================
